---- MODULE Spec2Model ----
\* State-channel client orchestrator (src/router/client.rs, RouterClient):
\* the run loop, the protocol message handlers, state channel reconciliation
\* (mk_state_channel) and the packet offer/purchase queue discipline.
EXTENDS Integers, Sequences, FiniteSets, TLC

\* ---------------------------------------------------------------- bounds
MaxPackets == 3     \* radio packets, numbered in order of arrival
MaxCap == 2         \* largest capacity of the state channel transport
MaxLog == 1         \* entries the store's append log can take
SinkCap == 1        \* slots of the bounded downlink sink

Packets == 1..MaxPackets
ChanIds == {1, 2}       \* state channel ids
Nonces == {0, 1}        \* contents a state channel of one id can have
Gateways == {1, 2}      \* gateway service handles

\* Option::None of a packet / of a wire state channel
NoPacket == 0
NoSc == [id |-> 0, nonce |-> 0]
WireScs == [id : ChanIds, nonce : Nonces]

VARIABLES
    channels,         \* store: channel id -> trusted record, or NoSc
    log,              \* store: append log of rejected candidates
    waiting_packets,  \* store: packets waiting for an offer
    queued_packets,   \* store: packets offered, waiting for purchase/reject
    gateway,          \* self.gateway
    capacity,         \* state_channel.capacity()
    sink,             \* number of downlinks buffered in self.downlinks
    sinkClosed,       \* the receiver of self.downlinks was dropped
    uplinksClosed,    \* the sender of the uplinks channel was dropped
    peer,             \* the channel states the router carries in its messages
    pc,               \* position of run: "select", "handled", "sink_wait", "done"
    last,             \* the event run has just handled and what the handler did
    scen,             \* progress along the end-to-end scenario, -1 when left
    scenCalls,        \* the calls made along the end-to-end scenario
    paid              \* the packets sent on a purchase, in order

vars == <<channels, log, waiting_packets, queued_packets, gateway, capacity,
          sink, sinkClosed, uplinksClosed, peer, pc, last, scen, scenCalls, paid>>

\* ---------------------------------------------------------------- store
\* RouterStore::state_channel_count
state_channel_count == Cardinality({i \in ChanIds : channels[i] /= NoSc})

\* RouterStore::get_state_channel
get_state_channel(id) == channels[id]

\* RouterStore::overwrite_state_channel: the new trusted records
overwrite_state_channel(key, sc) == [channels EXCEPT ![key] = sc]

\* RouterStore::append_state_channel: the new append log
append_state_channel(key, sc) == Append(log, sc)

\* RouterStore::deque_packet: <<popped packet or NoPacket, remaining queue>>
deque_packet(q) == IF q = <<>> THEN <<NoPacket, q>> ELSE <<Head(q), Tail(q)>>

\* RouterStore::pop_waiting_packet
pop_waiting_packet(w) == IF w = <<>> THEN <<NoPacket, w>> ELSE <<Head(w), Tail(w)>>

\* RouterStore::que_packet
que_packet(q, packet) == Append(q, packet)

\* ---------------------------------------------------------------- validator
\* StateChannel::with_sc: the trusted record merged with the incoming state
with_sc(known_sc, sc) == [id |-> known_sc.id, nonce |-> sc.nonce]

\* StateChannel::from_sc: a fresh record built from the wire state
from_sc(sc) == [id |-> sc.id, nonce |-> sc.nonce]

\* StateChannel::id_key
id_key(sc) == sc.id

\* ---------------------------------------------------------------- transport
\* StateChannelService::send: the capacity left after one message is sent;
\* drain: the consumer of the outbound channel frees the slot meanwhile
send(cap, drain) == IF drain \/ cap = 0 THEN cap ELSE cap - 1

\* outcomes of the collaborators called by one reconcile call
\* (get: store lookup; build: with_sc / from_sc; valid: is_valid_for /
\* is_valid_sc_for; accept: is_valid_purchase; write: overwrite / append);
\* one oracle per first failure, every call after a failure being unreached
OkOracle == [get |-> "ok", build |-> "ok", valid |-> "ok", accept |-> "ok",
             write |-> "ok"]

ScOracles ==
    {OkOracle,
     [OkOracle EXCEPT !.get = "err"],
     [OkOracle EXCEPT !.build = "err"],
     [OkOracle EXCEPT !.valid = "sc_err"],
     [OkOracle EXCEPT !.valid = "sc_err", !.write = "err"],
     [OkOracle EXCEPT !.valid = "other_err"],
     [OkOracle EXCEPT !.accept = "err"],
     [OkOracle EXCEPT !.write = "err"]}

\* ---------------------------------------------------------------- reconcile
\* the closures passed as final_validation: "banner" is |_, _| Ok(()),
\* "purchase" is known_sc.is_valid_purchase(new_sc, packet) when known_sc is
\* Some and Ok(()) otherwise; "none" when the closure was not called
final_validation(kind, known_sc, o) ==
    IF kind = "purchase" /\ known_sc /= NoSc THEN o.accept ELSE "ok"

ScResult(res, sc, ch, lg, calls, valid, accept) ==
    [res |-> res, sc |-> sc, channels |-> ch, log |-> lg, calls |-> calls,
     valid |-> valid, accept |-> accept]

\* mk_checked with a rejected candidate overwritten into the store
mk_checked_trusting(sc, kind, known_sc, o) ==
    IF o.valid = "ok"
    THEN IF final_validation(kind, known_sc, o) = "ok"
         THEN IF o.write = "ok"
              THEN ScResult("ok", sc, overwrite_state_channel(id_key(sc), sc), log,
                            <<<<"overwrite", sc.id>>>>, "ok", "ok")
              ELSE ScResult("store_err", NoSc, channels, log,
                            <<<<"overwrite", sc.id>>>>, "ok", "ok")
         ELSE ScResult("accept_err", NoSc, channels, log, <<>>, "ok", "err")
    ELSE IF o.valid = "sc_err"
    THEN IF o.write = "ok"
         THEN ScResult("sc_err", NoSc, overwrite_state_channel(id_key(sc), sc), log,
                       <<<<"overwrite", sc.id>>>>, "sc_err", "none")
         ELSE ScResult("store_err", NoSc, channels, log,
                       <<<<"overwrite", sc.id>>>>, "sc_err", "none")
    ELSE ScResult("other_err", NoSc, channels, log, <<>>, "other_err", "none")

\* mk_checked with the candidate appended on every failure of the validity
\* check, whatever its kind
mk_checked_append_any(sc, kind, known_sc, o) ==
    IF o.valid = "ok"
    THEN IF final_validation(kind, known_sc, o) = "ok"
         THEN IF o.write = "ok"
              THEN ScResult("ok", sc, overwrite_state_channel(id_key(sc), sc), log,
                            <<<<"overwrite", sc.id>>>>, "ok", "ok")
              ELSE ScResult("store_err", NoSc, channels, log,
                            <<<<"overwrite", sc.id>>>>, "ok", "ok")
         ELSE ScResult("accept_err", NoSc, channels, log, <<>>, "ok", "err")
    ELSE IF o.write = "ok"
         THEN ScResult(o.valid, NoSc, channels, append_state_channel(id_key(sc), sc),
                       <<<<"append", sc.id>>>>, o.valid, "none")
         ELSE ScResult("store_err", NoSc, channels, log,
                       <<<<"append", sc.id>>>>, o.valid, "none")

\* the arm taken after the basic validity check of a fresh candidate
\* (lines 185-202 and 207-222)
mk_checked(sc, kind, known_sc, o) ==
    IF o.valid = "ok"
    THEN IF final_validation(kind, known_sc, o) = "ok"
         THEN IF o.write = "ok"
              THEN ScResult("ok", sc, overwrite_state_channel(id_key(sc), sc), log,
                            <<<<"overwrite", sc.id>>>>, "ok", "ok")
              ELSE ScResult("store_err", NoSc, channels, log,
                            <<<<"overwrite", sc.id>>>>, "ok", "ok")
         ELSE ScResult("accept_err", NoSc, channels, log, <<>>, "ok", "err")
    ELSE IF o.valid = "sc_err"
    THEN IF o.write = "ok"
         THEN ScResult("sc_err", NoSc, channels, append_state_channel(id_key(sc), sc),
                       <<<<"append", sc.id>>>>, "sc_err", "none")
         ELSE ScResult("store_err", NoSc, channels, log,
                       <<<<"append", sc.id>>>>, "sc_err", "none")
    ELSE ScResult("other_err", NoSc, channels, log, <<>>, "other_err", "none")

\* mk_merged with the overwrite moved before final_validation
mk_merged_early(wire, kind, known_sc, o) ==
    IF o.build = "err"
    THEN ScResult("build_err", NoSc, channels, log, <<>>, "none", "none")
    ELSE LET sc == with_sc(known_sc, wire) IN
         IF o.write /= "ok"
         THEN ScResult("store_err", NoSc, channels, log,
                       <<<<"overwrite", sc.id>>>>, "none", "none")
         ELSE IF final_validation(kind, known_sc, o) /= "ok"
         THEN ScResult("accept_err", NoSc, overwrite_state_channel(id_key(sc), sc),
                       log, <<<<"overwrite", sc.id>>>>, "none", "err")
         ELSE ScResult("ok", sc, overwrite_state_channel(id_key(sc), sc),
                       log, <<<<"overwrite", sc.id>>>>, "none", "ok")

\* the arm taken when the store knows a channel of the same id (lines 176-181)
mk_merged(wire, kind, known_sc, o) ==
    IF o.build = "err"
    THEN ScResult("build_err", NoSc, channels, log, <<>>, "none", "none")
    ELSE LET sc == with_sc(known_sc, wire) IN
         IF final_validation(kind, known_sc, o) /= "ok"
         THEN ScResult("accept_err", NoSc, channels, log, <<>>, "none", "err")
         ELSE IF o.write = "ok"
         THEN ScResult("ok", sc, overwrite_state_channel(id_key(sc), sc),
                       log, <<<<"overwrite", sc.id>>>>, "none", "ok")
         ELSE ScResult("store_err", NoSc, channels, log,
                       <<<<"overwrite", sc.id>>>>, "none", "ok")

\* the arm of mk_state_channel a present channel state takes once the store
\* lookup returned: "same_id" (lines 176-181, no validity check),
\* "different_id" (lines 184-202, is_valid_sc_for against the known channel)
\* or "unknown" (lines 206-222, is_valid_for alone)
sc_arm(wire) ==
    LET known_sc == get_state_channel(wire.id) IN
    IF known_sc /= NoSc
    THEN IF wire.id = known_sc.id THEN "same_id" ELSE "different_id"
    ELSE "unknown"

\* RouterClient::mk_state_channel
mk_state_channel(wire, kind, o) ==
    IF wire = NoSc
    THEN ScResult("not_found", NoSc, channels, log, <<>>, "none", "none")
    ELSE IF o.get = "err"
    THEN ScResult("store_err", NoSc, channels, log, <<>>, "none", "none")
    ELSE LET known_sc == get_state_channel(wire.id) IN
         IF sc_arm(wire) = "same_id"
         THEN mk_merged(wire, kind, known_sc, o)
         ELSE IF o.build = "err"
         THEN ScResult("build_err", NoSc, channels, log, <<>>, "none", "none")
         ELSE IF sc_arm(wire) = "different_id"
         THEN mk_checked(from_sc(wire), kind, known_sc, o)
         ELSE mk_checked(from_sc(wire), kind, NoSc, o)

\* ---------------------------------------------------------------- sending
SendOutcomes == {"ok", "msg_err", "send_err"}

SendResult(res, calls, cap) == [res |-> res, calls |-> calls, cap |-> cap]

\* RouterClient::send_packet; so: outcome of StateChannelMessage::packet and
\* of state_channel.send
send_packet(packet, so, cap, drain) ==
    IF packet = NoPacket THEN SendResult("ok", <<>>, cap)
    ELSE IF so = "ok" THEN SendResult("ok", <<<<"Packet", packet>>>>, send(cap, drain))
    ELSE IF so = "msg_err" THEN SendResult("msg_err", <<>>, cap)
    ELSE SendResult("send_err", <<<<"send_err", packet>>>>, cap)

\* RouterClient::send_offer
send_offer(packet, so, cap, drain) ==
    IF so = "ok" THEN SendResult("ok", <<<<"Offer", packet>>>>, send(cap, drain))
    ELSE IF so = "msg_err" THEN SendResult("msg_err", <<>>, cap)
    ELSE SendResult("send_err", <<<<"send_err", packet>>>>, cap)

\* outcomes of one offer flood: in its failAt-th iteration send_offer fails
\* with kind "msg_err" or "send_err", or que_packet fails ("que_err")
\* (failAt = 0: nothing fails)
FloodOracles ==
    [failAt : {0}, kind : {"ok"}, drain : BOOLEAN]
    \cup [failAt : 1..MaxPackets, kind : {"msg_err", "send_err", "que_err"},
          drain : BOOLEAN]

FloodResult(res, w, q, cap, calls) ==
    [res |-> res, waiting |-> w, queued |-> q, cap |-> cap, calls |-> calls]

\* the while loop of send_packet_offers (lines 239-245); n: offers so far
RECURSIVE offers_loop(_, _, _, _, _, _)
offers_loop(w, q, cap, calls, n, fo) ==
    LET popped == pop_waiting_packet(w)
        packet == popped[1]
    IN  IF packet = NoPacket THEN FloodResult("ok", w, q, cap, calls)
        ELSE LET fails == fo.failAt = n + 1
                 so == IF fails /\ fo.kind /= "que_err" THEN fo.kind ELSE "ok"
                 r == send_offer(packet, so, cap, fo.drain)
                 c1 == calls \o <<<<"pop", packet>>>> \o r.calls
             IN  IF r.res /= "ok"
                 THEN FloodResult(r.res, popped[2], q, r.cap, c1)
                 ELSE IF fails /\ fo.kind = "que_err"
                 THEN FloodResult("que_err", popped[2], q, r.cap, c1)
                 ELSE LET q2 == que_packet(q, packet)
                          c2 == Append(c1, <<"que", packet>>)
                      IN  IF r.cap = 0
                          THEN FloodResult("ok", popped[2], q2, r.cap, c2)
                          ELSE offers_loop(popped[2], q2, r.cap, c2, n + 1, fo)

\* send_packet_offers popping the packets it has offered a second time
send_packet_offers_again(w, q, cap, fo) ==
    IF cap = 0 THEN FloodResult("ok", w, q, cap, <<>>)
    ELSE offers_loop(w \o w, q, cap, <<>>, 0, fo)

\* send_packet_offers without the capacity check before the loop
send_packet_offers_unchecked(w, q, cap, fo) == offers_loop(w, q, cap, <<>>, 0, fo)

\* RouterClient::send_packet_offers
send_packet_offers(w, q, cap, fo) ==
    IF cap = 0 THEN FloodResult("ok", w, q, cap, <<>>)
    ELSE offers_loop(w, q, cap, <<>>, 0, fo)

\* ---------------------------------------------------------------- handlers
OkUplink == [count |-> "ok", connect |-> "ok", send |-> "ok", drain |-> FALSE]

UplinkOracles ==
    {OkUplink,
     [OkUplink EXCEPT !.drain = TRUE],
     [OkUplink EXCEPT !.count = "err"],
     [OkUplink EXCEPT !.connect = "err"],
     [OkUplink EXCEPT !.send = "msg_err"],
     [OkUplink EXCEPT !.send = "send_err"]}

\* handle_uplink with the connect made after the packet is sent
handle_uplink_late_connect(uplink, o) ==
    IF o.count = "err"
    THEN [res |-> "store_err", calls |-> <<>>, cap |-> capacity]
    ELSE LET r == send_packet(uplink, o.send, capacity, o.drain)
             c == IF state_channel_count = 0
                  THEN <<<<"connect", IF o.connect = "ok" THEN 1 ELSE 0>>>> ELSE <<>>
         IN  [res |-> IF r.res /= "ok" THEN r.res
                      ELSE IF state_channel_count = 0 /\ o.connect = "err"
                      THEN "connect_err" ELSE "ok",
              calls |-> r.calls \o c, cap |-> r.cap]

\* RouterClient::handle_uplink; a connect call is recorded with 1 when it
\* succeeded and with 0 when it failed
handle_uplink(uplink, o) ==
    IF o.count = "err"
    THEN [res |-> "store_err", calls |-> <<>>, cap |-> capacity]
    ELSE IF state_channel_count = 0 /\ o.connect = "err"
    THEN [res |-> "connect_err", calls |-> <<<<"connect", 0>>>>, cap |-> capacity]
    ELSE LET c == IF state_channel_count = 0 THEN <<<<"connect", 1>>>> ELSE <<>>
             r == send_packet(uplink, o.send, capacity, o.drain)
         IN  [res |-> r.res, calls |-> c \o r.calls, cap |-> r.cap]

\* handle_purchase reading the oldest queued packet without removing it
handle_purchase_peek(wire, o, so, drain) ==
    LET d == deque_packet(queued_packets)
        packet == d[1]
        dc == IF packet = NoPacket THEN <<>> ELSE <<<<"deque", packet>>>>
        m == mk_state_channel(wire, "purchase", o)
    IN  IF m.res /= "ok"
        THEN [res |-> m.res, calls |-> dc \o m.calls, channels |-> m.channels,
              log |-> m.log, queued |-> queued_packets, cap |-> capacity,
              packet |-> packet, valid |-> m.valid, accept |-> m.accept]
        ELSE LET r == send_packet(packet, so, capacity, drain)
             IN  [res |-> r.res, calls |-> dc \o m.calls \o r.calls,
                  channels |-> m.channels, log |-> m.log, queued |-> queued_packets,
                  cap |-> r.cap, packet |-> packet,
                  valid |-> m.valid, accept |-> m.accept]

\* handle_purchase with the reconcile error dropped instead of returned
handle_purchase_unpaid(wire, o, so, drain) ==
    LET d == deque_packet(queued_packets)
        packet == d[1]
        dc == IF packet = NoPacket THEN <<>> ELSE <<<<"deque", packet>>>>
        m == mk_state_channel(wire, "purchase", o)
        r == send_packet(packet, so, capacity, drain)
    IN  [res |-> r.res, calls |-> dc \o m.calls \o r.calls,
         channels |-> m.channels, log |-> m.log, queued |-> d[2],
         cap |-> r.cap, packet |-> packet, valid |-> m.valid, accept |-> m.accept]

\* RouterClient::handle_state_channel_message, Msg::Purchase
handle_purchase(wire, o, so, drain) ==
    LET d == deque_packet(queued_packets)
        packet == d[1]
        dc == IF packet = NoPacket THEN <<>> ELSE <<<<"deque", packet>>>>
        m == mk_state_channel(wire, "purchase", o)
    IN  IF m.res /= "ok"
        THEN [res |-> m.res, calls |-> dc \o m.calls, channels |-> m.channels,
              log |-> m.log, queued |-> d[2], cap |-> capacity, packet |-> packet,
              valid |-> m.valid, accept |-> m.accept]
        ELSE LET r == send_packet(packet, so, capacity, drain)
             IN  [res |-> r.res, calls |-> dc \o m.calls \o r.calls,
                  channels |-> m.channels, log |-> m.log, queued |-> d[2],
                  cap |-> r.cap, packet |-> packet,
                  valid |-> m.valid, accept |-> m.accept]

\* handle_banner with the offer flood run whatever the reconcile call returned
handle_banner_ungated(wire, o, fo) ==
    LET m == mk_state_channel(wire, "banner", o)
        f == send_packet_offers(waiting_packets, queued_packets, capacity, fo)
    IN  [res |-> IF m.res /= "ok" THEN m.res ELSE f.res,
         calls |-> m.calls \o f.calls, channels |-> m.channels,
         log |-> m.log, waiting |-> f.waiting, queued |-> f.queued,
         cap |-> f.cap, valid |-> m.valid, accept |-> m.accept]

\* RouterClient::handle_state_channel_message, Msg::Banner
handle_banner(wire, o, fo) ==
    LET m == mk_state_channel(wire, "banner", o)
    IN  IF m.res /= "ok"
        THEN [res |-> m.res, calls |-> m.calls, channels |-> m.channels,
              log |-> m.log, waiting |-> waiting_packets, queued |-> queued_packets,
              cap |-> capacity, valid |-> m.valid, accept |-> m.accept]
        ELSE LET f == send_packet_offers(waiting_packets, queued_packets, capacity, fo)
             IN  [res |-> f.res, calls |-> m.calls \o f.calls, channels |-> m.channels,
                  log |-> m.log, waiting |-> f.waiting, queued |-> f.queued,
                  cap |-> f.cap, valid |-> m.valid, accept |-> m.accept]

\* handle_reject dropping every queued packet
handle_reject_all ==
    LET d == deque_packet(queued_packets)
    IN  [res |-> "ok", queued |-> <<>>, packet |-> d[1],
         calls |-> IF d[1] = NoPacket THEN <<>> ELSE <<<<"deque", d[1]>>>>]

\* RouterClient::handle_state_channel_message, Msg::Reject
handle_reject ==
    LET d == deque_packet(queued_packets)
    IN  [res |-> "ok", queued |-> d[2], packet |-> d[1],
         calls |-> IF d[1] = NoPacket THEN <<>> ELSE <<<<"deque", d[1]>>>>]

\* handle_unexpected with the message ignored instead of refused
handle_unexpected_ignored == [res |-> "ok", calls |-> <<>>]

\* RouterClient::handle_state_channel_message, Msg::Packet and Msg::Offer
handle_unexpected == [res |-> "custom_err", calls |-> <<>>]

\* what one iteration of run did: the event, its packet or gateway (arg) or
\* its channel state (wire), the handler's result, the calls it made in
\* order, the outcomes of the validity check and of the acceptance predicate
\* ("none": not evaluated), and whether the transport freed the slots of
\* the messages sent (drain)
Last(ev, arg, wire, res, calls, valid, accept, drain) ==
    [ev |-> ev, arg |-> arg, wire |-> wire, res |-> res, calls |-> calls,
     valid |-> valid, accept |-> accept, drain |-> drain]

\* an event that carries no channel state
Plain(ev, arg, res, calls) == Last(ev, arg, NoSc, res, calls, "none", "none", FALSE)

\* RouterClient::handle_downlink: downlinks.send fails on a closed sink and
\* takes a slot when one is free; on a full sink it waits ("pending")
handle_downlink ==
    IF sinkClosed THEN [res |-> "ok", calls |-> <<<<"drop", 1>>>>, sink |-> sink]
    ELSE IF sink < SinkCap
    THEN [res |-> "ok", calls |-> <<<<"downlink", 1>>>>, sink |-> sink + 1]
    ELSE [res |-> "pending", calls |-> <<>>, sink |-> sink]

\* RouterClient::handle_state_channel_message, Msg::Response; conv: the
\* response converts to a downlink packet
handle_response(conv) ==
    IF conv THEN handle_downlink
    ELSE [res |-> "ok", calls |-> <<>>, sink |-> sink]

\* ---------------------------------------------------------------- scenario
\* the end-to-end scenario of the specification: uplink of packet 1, Banner
\* for channel 1, Purchase for channel 1, Response, every collaborator
\* succeeding; scen counts the events of that sequence handled so far
ScenStep(k, good, calls) ==
    /\ scen' = IF scen = k - 1 /\ good THEN k ELSE -1
    /\ scenCalls' = IF scen = k - 1 /\ good THEN scenCalls \o calls ELSE <<>>

ScenOff == scen' = -1 /\ scenCalls' = <<>>

Idle == Plain("Idle", 0, "ok", <<>>)

\* run has not handled an event yet
Start == Plain("Start", 0, "ok", <<>>)

\* ---------------------------------------------------------------- run loop
\* run, uplinks.recv() arm, Some(Dispatch::Packet(packet))
RunUplinkPacket ==
    /\ pc = "select" /\ ~uplinksClosed
    /\ \E uplink \in Packets, o \in UplinkOracles :
         LET r == handle_uplink(uplink, o) IN
         /\ capacity' = r.cap
         /\ last' = Last("Uplink", uplink, NoSc, r.res, r.calls, "none", "none", o.drain)
         /\ ScenStep(1, uplink = 1 /\ o = OkUplink, r.calls)
    /\ pc' = "handled"
    /\ UNCHANGED <<channels, log, waiting_packets, queued_packets, gateway, sink,
                   sinkClosed, uplinksClosed, peer, paid>>

\* run, uplinks.recv() arm, Some(Dispatch::Gateway(gateway))
RunUplinkGateway ==
    /\ pc = "select" /\ ~uplinksClosed
    /\ \E g \in Gateways : gateway' = g
    /\ last' = Plain("Gateway", gateway', "ok", <<>>)
    /\ pc' = "handled"
    /\ ScenOff
    /\ UNCHANGED <<channels, log, waiting_packets, queued_packets, capacity, sink,
                   sinkClosed, uplinksClosed, peer, paid>>

\* run, uplinks.recv() arm, None: a closed channel is ready at once, so the
\* iteration consumes no event
RunUplinkNone ==
    /\ pc = "select" /\ uplinksClosed
    /\ last' = Plain("UplinksNone", 0, "ok", <<>>)
    /\ pc' = "handled"
    /\ ScenOff
    /\ UNCHANGED <<channels, log, waiting_packets, queued_packets, gateway,
                   capacity, sink, sinkClosed, uplinksClosed, peer, paid>>

\* run, shutdown arm
RunShutdown ==
    /\ pc = "select"
    /\ pc' = "done"
    /\ last' = Plain("Shutdown", 0, "ok", <<>>)
    /\ ScenOff
    /\ UNCHANGED <<channels, log, waiting_packets, queued_packets, gateway,
                   capacity, sink, sinkClosed, uplinksClosed, peer, paid>>

\* run, state_channel.message() arm, Ok(None) and Err(err)
RunStreamEnd ==
    /\ pc = "select"
    /\ pc' = "done"
    /\ \E e \in {"StreamEnd", "StreamErr"} :
         last' = Plain(e, 0, "ok", <<>>)
    /\ ScenOff
    /\ UNCHANGED <<channels, log, waiting_packets, queued_packets, gateway,
                   capacity, sink, sinkClosed, uplinksClosed, peer, paid>>

\* run, state_channel.message() arm, Ok(Some(message)) with message.msg None
RunNoInner ==
    /\ pc = "select"
    /\ last' = Plain("NoInner", 0, "ok", <<>>)
    /\ pc' = "handled"
    /\ ScenOff
    /\ UNCHANGED <<channels, log, waiting_packets, queued_packets, gateway,
                   capacity, sink, sinkClosed, uplinksClosed, peer, paid>>

\* run, message arm, Msg::Packet and Msg::Offer
RunUnexpected ==
    /\ pc = "select"
    /\ \E e \in {"InPacket", "InOffer"} :
         last' = Plain(e, 0, handle_unexpected.res, handle_unexpected.calls)
    /\ pc' = "handled"
    /\ ScenOff
    /\ UNCHANGED <<channels, log, waiting_packets, queued_packets, gateway,
                   capacity, sink, sinkClosed, uplinksClosed, peer, paid>>

\* run, message arm, Msg::Purchase
RunPurchase ==
    /\ pc = "select"
    /\ \E wire \in peer, o \in ScOracles :
        \E so \in IF mk_state_channel(wire, "purchase", o).res = "ok"
                     /\ queued_packets /= <<>>
                  THEN SendOutcomes ELSE {"ok"} :
        \E drain \in IF so = "ok" /\ queued_packets /= <<>> /\ capacity > 0
                     THEN BOOLEAN ELSE {FALSE} :
         LET r == handle_purchase(wire, o, so, drain) IN
         /\ Len(r.log) <= MaxLog
         /\ channels' = r.channels
         /\ log' = r.log
         /\ queued_packets' = r.queued
         /\ capacity' = r.cap
         /\ last' = Last("Purchase", r.packet, wire, r.res, r.calls, r.valid, r.accept,
                         drain)
         /\ paid' = IF <<"Packet", r.packet>> \in {r.calls[i] : i \in DOMAIN r.calls}
                    THEN Append(paid, r.packet) ELSE paid
         /\ ScenStep(3, wire.id = 1 /\ o = OkOracle /\ so = "ok", r.calls)
    /\ pc' = "handled"
    /\ UNCHANGED <<waiting_packets, gateway, sink, sinkClosed, uplinksClosed, peer>>

\* run, message arm, Msg::Banner
RunBanner ==
    /\ pc = "select"
    /\ \E wire \in peer, o \in ScOracles :
        \E fo \in IF mk_state_channel(wire, "banner", o).res = "ok" /\ capacity > 0
                  THEN {f \in FloodOracles : f.failAt <= Len(waiting_packets)}
                  ELSE {[failAt |-> 0, kind |-> "ok", drain |-> FALSE]} :
         LET r == handle_banner(wire, o, fo) IN
         /\ Len(r.log) <= MaxLog
         /\ channels' = r.channels
         /\ log' = r.log
         /\ waiting_packets' = r.waiting
         /\ queued_packets' = r.queued
         /\ capacity' = r.cap
         /\ last' = Last("Banner", 0, wire, r.res, r.calls, r.valid, r.accept, fo.drain)
         /\ ScenStep(2, wire.id = 1 /\ o = OkOracle /\ fo.failAt = 0 /\ ~fo.drain
                        /\ capacity > 0, r.calls)
    /\ pc' = "handled"
    /\ UNCHANGED <<gateway, sink, sinkClosed, uplinksClosed, peer, paid>>

\* run, message arm, Msg::Reject
RunReject ==
    /\ pc = "select"
    /\ LET r == handle_reject IN
         /\ queued_packets' = r.queued
         /\ last' = Plain("Reject", 0, r.res, r.calls)
    /\ pc' = "handled"
    /\ ScenOff
    /\ UNCHANGED <<channels, log, waiting_packets, gateway, capacity, sink,
                   sinkClosed, uplinksClosed, peer, paid>>

\* run, message arm, Msg::Response; the handler is suspended in
\* handle_downlink while the sink is full
RunResponse ==
    /\ pc = "select"
    /\ \E conv \in BOOLEAN :
         LET r == handle_response(conv) IN
         /\ sink' = r.sink
         /\ last' = Plain("Response", IF conv THEN 1 ELSE 0, r.res, r.calls)
         /\ pc' = IF r.res = "pending" THEN "sink_wait" ELSE "handled"
         /\ ScenStep(4, conv /\ r.res = "ok" /\ ~sinkClosed, r.calls)
    /\ UNCHANGED <<channels, log, waiting_packets, queued_packets, gateway,
                   capacity, sinkClosed, uplinksClosed, peer, paid>>

\* handle_downlink resumed: the awaited downlinks.send completes once the
\* sink has a free slot or is closed
ResumeDownlink ==
    /\ pc = "sink_wait"
    /\ sinkClosed \/ sink < SinkCap
    /\ LET r == handle_downlink IN
         /\ sink' = r.sink
         /\ last' = Plain("Response", 1, r.res, r.calls)
    /\ pc' = "handled"
    /\ ScenOff
    /\ UNCHANGED <<channels, log, waiting_packets, queued_packets, gateway,
                   capacity, sinkClosed, uplinksClosed, peer, paid>>

\* RunContinue with a handler error returned from run
RunContinue_fatal ==
    /\ pc = "handled"
    /\ pc' = IF last.res = "ok" THEN "select" ELSE "done"
    /\ last' = IF last.res = "ok" THEN Idle ELSE last
    /\ UNCHANGED <<channels, log, waiting_packets, queued_packets, gateway,
                   capacity, sink, sinkClosed, uplinksClosed, peer, scen,
                   scenCalls, paid>>

\* run: the handler's result is matched (Ok(()) => (), Err(err) => warn!) and
\* the loop goes to its next iteration
RunContinue ==
    /\ pc = "handled"
    /\ pc' = "select"
    /\ last' = Idle
    /\ UNCHANGED <<channels, log, waiting_packets, queued_packets, gateway,
                   capacity, sink, sinkClosed, uplinksClosed, peer, scen,
                   scenCalls, paid>>

\* ---------------------------------------------------------------- environment
\* the consumer of the downlink sink takes one downlink
SinkDrain ==
    /\ pc \in {"select", "sink_wait"} /\ sink > 0 /\ ~sinkClosed
    /\ sink' = sink - 1
    /\ UNCHANGED <<channels, log, waiting_packets, queued_packets, gateway,
                   capacity, sinkClosed, uplinksClosed, peer, pc, last, scen,
                   scenCalls, paid>>

\* the consumer of the downlink sink goes away
SinkClose ==
    /\ pc \in {"select", "sink_wait"} /\ ~sinkClosed
    /\ sinkClosed' = TRUE
    /\ sink' = 0
    /\ UNCHANGED <<channels, log, waiting_packets, queued_packets, gateway,
                   capacity, uplinksClosed, peer, pc, last, scen, scenCalls, paid>>

\* the sender of the uplink dispatch channel goes away
UplinksClose ==
    /\ pc \in {"select", "sink_wait"} /\ ~uplinksClosed
    /\ uplinksClosed' = TRUE
    /\ UNCHANGED <<channels, log, waiting_packets, queued_packets, gateway,
                   capacity, sink, sinkClosed, peer, pc, last, scen, scenCalls,
                   paid>>

\* the transport delivers one outbound message, freeing one slot
TransportDrain ==
    /\ pc \in {"select", "sink_wait"} /\ capacity < MaxCap
    /\ capacity' = capacity + 1
    /\ UNCHANGED <<channels, log, waiting_packets, queued_packets, gateway,
                   sink, sinkClosed, uplinksClosed, peer, pc, last, scen,
                   scenCalls, paid>>

\* ---------------------------------------------------------------- specification
\* the store as RouterStore::new finds it: the trusted channels an earlier
\* run persisted, among those the router uses
InitChannels ==
    {f \in [ChanIds -> WireScs \cup {NoSc}] :
        \A i \in ChanIds : f[i] = NoSc \/ (f[i] \in peer /\ f[i].id = i /\ f[i].nonce = 0)}

InitCommon ==
    /\ channels \in InitChannels
    /\ log = <<>>
    /\ gateway = 1
    /\ capacity = MaxCap
    /\ sink = 0
    /\ sinkClosed = FALSE
    /\ uplinksClosed = FALSE
    /\ pc = "select"
    /\ last = Start
    /\ scenCalls = <<>>
    /\ paid = <<>>

\* the state after RouterClient::new: both packet queues are empty, and the
\* router may carry any channel state, or none, in a message
Init ==
    /\ peer = WireScs \cup {NoSc}
    /\ InitCommon
    /\ waiting_packets = <<>>
    /\ queued_packets = <<>>
    /\ scen = IF \A i \in ChanIds : channels[i] = NoSc THEN 0 ELSE -1

\* packets in order of arrival
PacketSeqs ==
    {s \in UNION {[1..n -> Packets] : n \in 0..MaxPackets} :
        \A i, j \in DOMAIN s : i < j => s[i] < s[j]}

\* the handlers on a store whose queues hold packets placed there, in order
\* of arrival, through RouterStore::store_waiting_packet and
\* RouterStore::que_packet (offered packets are older than waiting ones),
\* with a router that uses one state channel
InitQ ==
    /\ peer = {NoSc, [id |-> 1, nonce |-> 0]}
    /\ InitCommon
    /\ waiting_packets \in PacketSeqs
    /\ queued_packets \in PacketSeqs
    /\ \A i \in DOMAIN queued_packets, j \in DOMAIN waiting_packets :
          queued_packets[i] < waiting_packets[j]
    /\ scen = IF /\ \A i \in ChanIds : channels[i] = NoSc
                 /\ waiting_packets = <<>> /\ queued_packets = <<>>
              THEN 0 ELSE -1

Next ==
    \/ RunUplinkPacket
    \/ RunUplinkGateway
    \/ RunUplinkNone
    \/ RunShutdown
    \/ RunStreamEnd
    \/ RunNoInner
    \/ RunUnexpected
    \/ RunPurchase
    \/ RunBanner
    \/ RunReject
    \/ RunResponse
    \/ ResumeDownlink
    \/ RunContinue
    \/ SinkDrain
    \/ SinkClose
    \/ UplinksClose
    \/ TransportDrain

Spec == Init /\ [][Next]_vars

SpecQ == InitQ /\ [][Next]_vars

\* ---------------------------------------------------------------- properties
\* the places in a sequence of calls of the calls of one kind
Places(kind, calls) == {i \in DOMAIN calls : calls[i][1] = kind}

Range(seq) == {seq[i] : i \in DOMAIN seq}

\* C1 (as stated): packets are released only after being paid for: every
\* Packet message sent carries a packet for which a Purchase was reconciled
\* before; stated on the runs of a newly constructed client with an empty
\* store (scen >= 0)
C1_ReleasedOnlyWhenPaid ==
    scen >= 0 =>
        \A i \in Places("Packet", last.calls) : last.calls[i][2] \in Range(paid)

\* C1 (amended): every Packet message is either the direct send of the uplink
\* the uplink handler is handling, which no Purchase has paid for, or the
\* send by the Purchase handler of the packet it dequeued, made after the
\* reconciliation of that Purchase overwrote the store
C1_PacketOrigin ==
    \A i \in Places("Packet", last.calls) :
        \/ /\ last.ev = "Uplink"
           /\ last.calls[i][2] = last.arg
           /\ Places("Packet", last.calls) = {i}
        \/ /\ last.ev = "Purchase"
           /\ last.calls[i][2] = last.arg
           /\ Places("Packet", last.calls) = {i}
           /\ \E j \in 1..(i - 1), k \in 1..(i - 1) :
                 /\ k < j
                 /\ last.calls[k] = <<"deque", last.arg>>
                 /\ last.calls[j] = <<"overwrite", last.wire.id>>
           /\ paid /= <<>> /\ paid[Len(paid)] = last.arg

\* C1 witness: a Purchase has sent the packet it dequeued
C1_PaidPacketSent ==
    last.ev = "Purchase" /\ Places("Packet", last.calls) /= {}

\* C2: when the acceptance predicate fails, the reconcile call calls neither
\* overwrite nor append and leaves the trusted records and the append log as
\* they were
C2_NoPersistOnPredicateFailure ==
    [][last'.accept = "err" =>
          /\ channels' = channels
          /\ log' = log
          /\ Places("overwrite", last'.calls) = {}
          /\ Places("append", last'.calls) = {}
          /\ last'.res = "accept_err"]_vars

\* C2 witness: a Purchase for a trusted channel was refused by the predicate
C2_PredicateRefused ==
    /\ last.ev = "Purchase" /\ last.accept = "err"
    /\ channels[last.wire.id] /= NoSc
    /\ channels[last.wire.id].nonce /= last.wire.nonce

\* C3: when the basic validity check of a candidate fails with a channel
\* validation error, the reconcile call calls append once, with the candidate,
\* never overwrite, and leaves every trusted record as it was; the candidate
\* is the one entry added to the append log when that append succeeds
C3_AuditOnValidityFailure ==
    [][last'.valid = "sc_err" =>
          /\ channels' = channels
          /\ Places("overwrite", last'.calls) = {}
          /\ \E i \in DOMAIN last'.calls :
                /\ Places("append", last'.calls) = {i}
                /\ last'.calls[i] = <<"append", last'.wire.id>>
          /\ last'.res \in {"sc_err", "store_err"}
          /\ last'.res = "sc_err" => log' = Append(log, from_sc(last'.wire))
          /\ last'.res = "store_err" => log' = log]_vars

\* C3 witness: a candidate that failed the validity check is in the append log
C3_CandidateAudited ==
    /\ last.valid = "sc_err" /\ last.res = "sc_err"
    /\ log = <<from_sc(last.wire)>>
    /\ channels[last.wire.id] = NoSc

\* the calls the end-to-end scenario is stated in
IsScenCall(c) == c[1] \in {"connect", "Packet", "Offer", "deque", "downlink"}

\* C4: from an empty store and empty queues, uplink of packet 1, Banner for
\* channel 1, Purchase for channel 1 and Response make, in this order, one
\* connect call, a direct Packet message for 1, channel 1 trusted, an Offer for
\* 1, the dequeue of 1 with a Packet message for 1, and one downlink delivered
C4_EndToEnd ==
    scen = 4 =>
        /\ SelectSeq(scenCalls, IsScenCall) =
              << <<"connect", 1>>, <<"Packet", 1>>, <<"Offer", 1>>, <<"deque", 1>>,
                 <<"Packet", 1>>, <<"downlink", 1>> >>
        /\ channels[1] /= NoSc

\* C5: a Purchase is accepted (the store overwritten, or a Packet message
\* sent) only if the store already knew the carried channel and the purchase
\* validation passed; any other Purchase neither changes the trusted records
\* nor sends a Packet message
C5_PurchaseValidationRule ==
    [][(/\ last'.ev = "Purchase"
        /\ \/ channels' /= channels
           \/ Places("overwrite", last'.calls) /= {}
           \/ Places("Packet", last'.calls) /= {})
       => /\ last'.wire /= NoSc
          /\ channels[last'.wire.id] /= NoSc
          /\ last'.accept = "ok"]_vars

IsOffer(c) == c[1] = "Offer"

\* the offer flood of a Banner ran: its reconciliation succeeded
FloodRan(l) ==
    /\ l.ev = "Banner"
    /\ Places("overwrite", l.calls) /= {}
    /\ l.res \in {"ok", "msg_err", "send_err", "que_err"}

\* C6: in one offer flood over a transport whose capacity goes down by one
\* per message sent, with capacity N and M waiting packets at its start: at
\* most N offers are sent, they are for the oldest waiting packets in FIFO
\* order, with N = 0 nothing is popped or sent, and when no offer fails and
\* M >= N exactly N offers are sent, the offered packets move to the offered
\* queue and the other M - N stay waiting, in order
C6_FloodRespectsCapacity ==
    [][(FloodRan(last') /\ ~last'.drain) =>
          LET N == capacity
              M == Len(waiting_packets)
              offs == SelectSeq(last'.calls, IsOffer)
          IN  /\ Len(offs) <= N
              /\ Len(offs) <= M
              /\ \A i \in DOMAIN offs : offs[i][2] = waiting_packets[i]
              /\ capacity' = N - Len(offs)
              /\ N = 0 => /\ Places("pop", last'.calls) = {}
                          /\ waiting_packets' = waiting_packets
                          /\ queued_packets' = queued_packets
              /\ (last'.res = "ok" /\ M >= N) =>
                    /\ Len(offs) = N
                    /\ waiting_packets' = SubSeq(waiting_packets, N + 1, M)
                    /\ queued_packets' =
                          queued_packets \o SubSeq(waiting_packets, 1, N)]_vars

\* C6 witness: a flood with capacity 2 and three waiting packets has offered
\* the two oldest and left the third waiting
C6_TwoOfThreeOffered ==
    /\ FloodRan(last) /\ ~last.drain /\ last.res = "ok"
    /\ SelectSeq(last.calls, IsOffer) = << <<"Offer", 1>>, <<"Offer", 2>> >>
    /\ waiting_packets = <<3>>
    /\ queued_packets = <<1, 2>>
    /\ capacity = 0

\* C7: a Purchase sends a Packet message for no packet but the oldest queued
\* one; a successful Purchase on a non-empty queue dequeues the oldest queued
\* packet, reconciles and sends the Packet message for it, so that successive
\* Purchases consume the queued packets in order of arrival
C7_PurchaseFifo ==
    [][last'.ev = "Purchase" =>
          /\ \A i \in Places("Packet", last'.calls) :
                queued_packets /= <<>> /\ last'.calls[i][2] = Head(queued_packets)
          /\ (last'.res = "ok" /\ queued_packets /= <<>>) =>
                /\ queued_packets' = Tail(queued_packets)
                /\ last'.calls = << <<"deque", Head(queued_packets)>>,
                                    <<"overwrite", last'.wire.id>>,
                                    <<"Packet", Head(queued_packets)>> >>
                /\ paid' = Append(paid, Head(queued_packets))
                /\ \A i \in DOMAIN paid : paid[i] < Head(queued_packets)]_vars

\* C7 witness: two Purchases have consumed packet 1 and then packet 2
C7_TwoPurchases ==
    /\ last.ev = "Purchase" /\ last.res = "ok" /\ last.arg = 2
    /\ paid = <<1, 2>>
    /\ queued_packets = <<3>>

\* C8: a Reject removes the oldest queued packet and nothing else, is a no-op
\* on an empty queue, returns success, leaves the store's channels and append
\* log as they were and sends nothing
C8_RejectRemovesOne ==
    [][last'.ev = "Reject" =>
          /\ queued_packets' = IF queued_packets = <<>> THEN <<>>
                               ELSE Tail(queued_packets)
          /\ last'.res = "ok"
          /\ last'.calls = IF queued_packets = <<>> THEN <<>>
                           ELSE << <<"deque", Head(queued_packets)>> >>
          /\ UNCHANGED <<channels, log, waiting_packets, capacity, sink, paid>>]_vars

\* C8 witness: a Reject has removed packet 1 and left packets 2 and 3 in order
C8_OldestRejected ==
    /\ last.ev = "Reject" /\ last.calls = << <<"deque", 1>> >>
    /\ queued_packets = <<2, 3>>

\* C9: handling an uplink with no trusted channel in the store calls connect
\* once, before anything is sent; when the count lookup or the connect fails
\* nothing is sent; with a trusted channel in the store connect is not called
C9_ConnectOnFirstPacket ==
    (pc = "handled" /\ last.ev = "Uplink") =>
        /\ (state_channel_count = 0 /\ last.res /= "store_err") =>
              Places("connect", last.calls) = {1}
        /\ last.res = "store_err" => last.calls = <<>>
        /\ last.res \in {"store_err", "connect_err"} =>
              Places("Packet", last.calls) \cup Places("Offer", last.calls)
                 \cup Places("send_err", last.calls) = {}
        /\ state_channel_count > 0 => Places("connect", last.calls) = {}

\* C9 witness: an uplink on an empty store has connected and then sent
C9_ConnectedThenSent ==
    /\ pc = "handled" /\ last.ev = "Uplink" /\ state_channel_count = 0
    /\ last.calls = << <<"connect", 1>>, <<"Packet", last.arg>> >>

\* C10: whatever a handler returns, run goes to its next iteration; run ends,
\* with success, only on the shutdown signal, the end of the inbound stream or
\* an inbound stream error; a message without inner payload changes nothing
C10_ErrorContainment ==
    [][/\ pc = "handled" => pc' = "select"
       /\ (pc' = "done" /\ pc /= "done") =>
             /\ pc = "select"
             /\ last'.ev \in {"Shutdown", "StreamEnd", "StreamErr"}
             /\ last'.res = "ok"
       /\ last'.ev = "NoInner" =>
             /\ pc' = "handled"
             /\ UNCHANGED <<channels, log, waiting_packets, queued_packets,
                            gateway, capacity, sink, sinkClosed, uplinksClosed,
                            paid>>]_vars

\* C10 witness: after a reconcile call returned a channel validation error
\* (its candidate is in the append log), a later uplink was handled
C10_HandledAfterError ==
    /\ pc = "handled" /\ last.ev = "Uplink" /\ last.res = "ok"
    /\ log /= <<>>

\* C11: a Response that converts to a downlink and arrives while the sink is
\* full or closed is handled at once: the downlink is dropped, the handler
\* returns success and run goes on to its next iteration; run never waits on
\* the sink
C11_SinkNeverBlocks ==
    [][/\ pc' /= "sink_wait"
       /\ (/\ pc = "select" /\ last'.ev = "Response" /\ last'.arg = 1
           /\ (sinkClosed \/ sink = SinkCap))
          => /\ pc' = "handled"
             /\ last'.res = "ok"
             /\ last'.calls = << <<"drop", 1>> >>
             /\ sink' = sink]_vars

\* the packets held in the two packet queues of the store
Held(w, q) == Range(w) \cup Range(q)

\* C12: a packet leaves the packet queues only by a Purchase whose
\* reconciliation succeeded (the Packet message for it is then built and
\* sent) or by a Reject; a Purchase whose reconciliation fails and an offer
\* flood in which an offer fails leave every packet in the queues
C12_LeavesOnlyPurchasedOrRejected ==
    [][\A p \in Held(waiting_packets, queued_packets)
                   \ Held(waiting_packets', queued_packets') :
          \/ last'.ev = "Reject"
          \/ /\ last'.ev = "Purchase"
             /\ last'.res \in {"ok", "msg_err", "send_err"}]_vars

\* C13: when the store trusts a channel of some id and a Banner or Purchase
\* carries a channel of another id that the store does not hold, the carried
\* channel comes to be trusted only through the arm that checks it as a
\* replacement of the trusted channel (is_valid_sc_for), never through the
\* arm that runs is_valid_for alone
C13_ReplacementCheck ==
    [][(/\ last'.ev \in {"Banner", "Purchase"}
        /\ last'.wire /= NoSc
        /\ get_state_channel(last'.wire.id) = NoSc
        /\ \E x \in ChanIds : x /= last'.wire.id /\ channels[x] /= NoSc
        /\ channels'[last'.wire.id] /= NoSc)
       => sc_arm(last'.wire) = "different_id"]_vars

\* C14: when the basic validity check of a candidate fails with a channel
\* validation error, the reconcile call returns that channel validation
\* error, whatever the outcome of the audit append
C14_ValidationErrorNotMasked ==
    last.valid = "sc_err" => last.res = "sc_err"

\* the store lookup of the reconcile call failed
LookupFailed(l) == l.res = "store_err" /\ l.valid = "none" /\ l.accept = "none"

\* C15: a reconcile call that fails because the channel state is absent,
\* because the store lookup fails, because with_sc or from_sc fails, or
\* because the validity check fails with an error other than a channel
\* validation error, calls neither append nor overwrite, leaves the trusted
\* records and the append log as they were and returns that error
C15_OtherFailuresLeaveStore ==
    [][last'.ev \in {"Banner", "Purchase"} =>
          /\ last'.wire = NoSc => last'.res = "not_found"
          /\ last'.valid = "other_err" => last'.res = "other_err"
          /\ (\/ last'.res \in {"not_found", "build_err", "other_err"}
              \/ LookupFailed(last'))
             => /\ channels' = channels
                /\ log' = log
                /\ Places("overwrite", last'.calls) = {}
                /\ Places("append", last'.calls) = {}]_vars

\* C15 witness: the validity check of a Banner's candidate for an unknown
\* channel failed with an error other than a channel validation error
C15_OtherErrorReturned ==
    /\ last.ev = "Banner" /\ last.valid = "other_err" /\ last.res = "other_err"
    /\ channels[last.wire.id] = NoSc
    /\ state_channel_count = 1
    /\ log = <<>>

\* C16: handling an inbound Packet or Offer message returns an error, leaves
\* the trusted records, the append log, both packet queues and the gateway
\* handle unchanged, sends nothing on the transport and delivers nothing to
\* the downlink sink
C16_UnexpectedRefused ==
    [][last'.ev \in {"InPacket", "InOffer"} =>
          /\ last'.res = "custom_err"
          /\ last'.calls = <<>>
          /\ UNCHANGED <<channels, log, waiting_packets, queued_packets, gateway,
                         capacity, sink>>]_vars

\* C16 witness: an inbound Offer was refused while both queues hold packets
C16_OfferRefused ==
    /\ pc = "handled" /\ last.ev = "InOffer" /\ last.res = "custom_err"
    /\ queued_packets = <<1>>
    /\ waiting_packets = <<2, 3>>

\* C17: every iteration of run consumes one event: a packet or a gateway from
\* the uplink dispatch channel, or one inbound state channel message
C17_EveryIterationConsumes ==
    pc = "handled" =>
        last.ev \in {"Uplink", "Gateway", "NoInner", "InPacket", "InOffer",
                     "Purchase", "Banner", "Reject", "Response"}

\* C18: Offer messages are sent only in handling a Banner, after its
\* reconciliation succeeded; a Banner whose reconciliation fails sends no
\* offer and leaves both packet queues unchanged; a Banner that succeeds with
\* nonzero capacity, no offer failing, sends an offer for each waiting packet,
\* oldest first, until none is waiting or capacity is zero
C18_BannerGatesFlood ==
    [][LET offs == SelectSeq(last'.calls, IsOffer)
           k == Len(offs)
           M == Len(waiting_packets)
       IN  /\ k > 0 =>
                /\ FloodRan(last')
                /\ \A i \in Places("Offer", last'.calls) :
                      \E j \in Places("overwrite", last'.calls) : j < i
           /\ (last'.ev = "Banner" /\ ~FloodRan(last')) =>
                /\ k = 0
                /\ Places("pop", last'.calls) = {}
                /\ waiting_packets' = waiting_packets
                /\ queued_packets' = queued_packets
           /\ (FloodRan(last') /\ last'.res = "ok" /\ capacity > 0) =>
                /\ k <= M
                /\ \A i \in 1..k : offs[i] = <<"Offer", waiting_packets[i]>>
                /\ waiting_packets' = SubSeq(waiting_packets, k + 1, M)
                /\ k = M \/ capacity' = 0]_vars

\* C18 witness: a Banner with capacity 2 has offered both waiting packets
C18_BothOffered ==
    /\ FloodRan(last) /\ last.res = "ok" /\ ~last.drain
    /\ SelectSeq(last.calls, IsOffer) = << <<"Offer", 2>>, <<"Offer", 3>> >>
    /\ waiting_packets = <<>>
    /\ queued_packets = <<1, 2, 3>>
    /\ capacity = 0

IsPop(c) == c[1] = "pop"

C20_NoSendBeforeConnect ==
    [][last.ev = "Start" =>
          \A i \in Places("Packet", last'.calls) \cup Places("Offer", last'.calls) :
             \E j \in 1..(i - 1) : last'.calls[j] = <<"connect", 1>>]_vars

====
